---- MODULE Spec2Model ----
(***************************************************************************)
(* Polymarket insider detector: the persistent store (database_fixed.py),  *)
(* the batch loop of detect_insider_trades (detector.py) and the scoring   *)
(* and filtering functions it calls.                                       *)
(*                                                                         *)
(* Numbers.  Money is in whole dollars, prices and odds in hundredths      *)
(* (price 5 is 0.05), latencies in seconds, insider_score in hundredths of *)
(* a point (2778 is 27.78, the two decimals round(..., 2) keeps).  The     *)
(* REAL column avg_latency_seconds is an exact fraction <<num, den>>.      *)
(***************************************************************************)
EXTENDS Integers, Sequences, FiniteSets, TLC

\* ------------------------------------------------------------------------
\* Bounds of the model
\* ------------------------------------------------------------------------
\* direct update_wallet_stats calls, all wallets together
MaxCalls == 4

\* trades in the batch of one polling cycle, and polling cycles
MaxBatch == 2

MaxCycles == 2

\* trades in the batch of the error-threshold runs
MaxLoopBatch == 13

\* length of the batch of the alert runs
MaxAlertBatch == 3

\* trades taken up by the concurrent detector runs, all runs together
MaxRunTrades == 3

\* update_wallet_stats calls made by the concurrent workers, all together
MaxTxnCalls == 3

\* ------------------------------------------------------------------------
\* Inputs
\* ------------------------------------------------------------------------
Wallets == {"w1", "w2"}

\* None / SQL NULL is the empty tuple, a present number v is <<v>>
NULL == <<>>

Some(v) == <<v>>

Val(x) == x[1]

\* fetchone() found no row
NoRow == [absent |-> TRUE]

\* trade_data of the direct update_wallet_stats calls; latency_seconds is
\* None or a positive number of seconds
TradeData ==
  [is_pre_event : BOOLEAN, size : {1000, 2500},
   latency_seconds : {NULL, Some(600), Some(3600)}]

\* ------------------------------------------------------------------------
\* Exact arithmetic on fractions
\* ------------------------------------------------------------------------
RECURSIVE GCD(_, _)
GCD(a, b) == IF b = 0 THEN a ELSE GCD(b, a % b)

Frac(n, d) == LET g == GCD(n, d) IN <<n \div g, d \div g>>

\* round-half-even of p/q for p >= 0, q > 0 (Python's round)
RoundDiv(p, q) ==
  LET f == p \div q
      r == p % q
  IN  IF 2 * r < q THEN f
      ELSE IF 2 * r > q THEN f + 1
      ELSE IF f % 2 = 0 THEN f ELSE f + 1

\* ------------------------------------------------------------------------
\* State
\* ------------------------------------------------------------------------
VARIABLES
  wallet_performance,   \* table wallet_performance: wallet -> row or NoRow
  trade_history,        \* table trade_history: rows, trade_hash UNIQUE
  alert_history,        \* table alert_history: rows, trade_hash UNIQUE
  now,                  \* wall clock, in hours
  cycle,                \* polling cycles started so far
  pc,                   \* "idle" between cycles, "loop" inside the batch loop
  batch_len,            \* len(trades) of the running cycle
  idx,                  \* trades of the batch consumed so far
  wallet_stats_cache,   \* wallet stats pre-fetched at the start of the cycle
  alerts,               \* the list detect_insider_trades returns
  error_count,
  filtered_invalid_data,
  processed_count,
  aborted,              \* the loop was left through "break"
  emitted,              \* history: alerts emitted per (wallet, trade_hash), all cycles
  calls,                \* history: what the last iteration called
  consec,               \* history: length of the current run of failed iterations
  stat_calls,           \* history: per wallet, what the direct calls carried
  wpc,                  \* per worker: where it stands in its handler
  wcall,                \* per worker: the trade or the call it is working on
  wrow,                 \* per worker: the row its transaction read or wrote
  db_lock,              \* the worker holding the database write lock, or 0
  txn_log,              \* history: the update_wallet_stats calls, in the order they ended
  started,              \* history: trades or calls the workers have taken up
  arg,                  \* the arguments of the function called on its own
  res,                  \* what that call returned
  tracked_hashes,       \* main: trade hashes of the alerts sent, kept between runs
  existing_alerts       \* main: (wallet, trade_hash) of the alerts sent, kept between runs

dbvars == <<wallet_performance, trade_history, alert_history>>

detvars == <<now, cycle, pc, batch_len, idx, wallet_stats_cache, alerts,
             error_count, filtered_invalid_data, processed_count, aborted,
             emitted, calls, consec>>

concvars == <<wpc, wcall, wrow, db_lock, txn_log, started>>

callvars == <<arg, res>>

\* main.py: the hashes and the alerts kept between runs
mainvars == <<tracked_hashes, existing_alerts>>

vars == <<dbvars, detvars, stat_calls, concvars, callvars, mainvars>>

\* ------------------------------------------------------------------------
\* database_fixed.py: wallet statistics
\* ------------------------------------------------------------------------
\* calculate_insider_score, on a non-NULL avg_latency <<num, den>>; the result
\* is round(total_score, 2) in hundredths.
\*   pre_event_score = min(pre/total*100, 100) * 0.50
\*   latency_score   = min(avg/1800*100, 100) * 0.50 if avg > 0 else 0
calculate_insider_score(pre_event_trades, total_trades, avg_latency) ==
  LET n == avg_latency[1]
      d == avg_latency[2]
      \* pre_event_score in hundredths as a fraction over total_trades
      preNum == IF total_trades > 0
                THEN (IF pre_event_trades >= total_trades THEN 5000 * total_trades
                      ELSE 5000 * pre_event_trades)
                ELSE 0
      preDen == IF total_trades > 0 THEN total_trades ELSE 1
      \* latency_score in hundredths as a fraction over 9*d
      latNum == IF n > 0
                THEN (IF n >= 1800 * d THEN 5000 * 9 * d ELSE 25 * n)
                ELSE 0
      latDen == 9 * d
  IN  RoundDiv(preNum * latDen + latNum * preDen, preDen * latDen)

classify_wallet(insider_score, pre_event_trades, total_trades) ==
  IF total_trades < 3 THEN "New"
  ELSE IF insider_score >= 8000 THEN "Probable Insider"
  ELSE IF insider_score >= 6000 THEN "Syndicate/Whale"
  ELSE IF insider_score >= 3000 THEN "Professional"
  ELSE "Retail"

\* CHECK constraints of the wallet_performance schema; a CHECK on a NULL
\* value is not a violation.
WalletRowChecks(row) ==
  /\ row.total_trades >= 0
  /\ row.pre_event_trades >= 0
  /\ row.total_volume >= 0
  /\ (row.avg_latency_seconds # NULL => row.avg_latency_seconds[1] >= 0)
  /\ row.insider_score >= 0
  /\ row.insider_score <= 10000

\* the INSERT of the "new wallet" branch: insider_score 0 and 'New' are
\* literals of the statement, avg_latency_seconds is trade_data.get(
\* 'latency_seconds', 0), which is None when the key holds None.
InsertedRow(td) ==
  [ total_trades        |-> 1,
    pre_event_trades    |-> IF td.is_pre_event THEN 1 ELSE 0,
    total_volume        |-> td.size,
    avg_latency_seconds |-> IF td.latency_seconds = NULL THEN NULL
                            ELSE Frac(Val(td.latency_seconds), 1),
    insider_score       |-> 0,
    classification      |-> "New" ]

\* the "existing wallet" branch raises TypeError when the stored average is
\* NULL: None * row[0] when the call carries a latency, None > 0 inside
\* calculate_insider_score otherwise.
UpdateRaisesTypeError(row, td) == row.avg_latency_seconds = NULL

\* slip: starts from the incremented total_trades instead of row[1]
UpdatedPreEventTrades_FromTotal(row, td) ==
  row.total_trades + 1 + (IF td.is_pre_event THEN 1 ELSE 0)

UpdatedPreEventTrades(row, td) ==
  row.pre_event_trades + (IF td.is_pre_event THEN 1 ELSE 0)

\* trade_data.get('latency_seconds') and trade_data['latency_seconds'] > 0
HasLatency(td) == td.latency_seconds # NULL /\ Val(td.latency_seconds) > 0

\* avg_latency = (old_avg * row[0] + latency) / total_trades, else old_avg
UpdatedAvgLatency(row, td) ==
  LET old == row.avg_latency_seconds
  IN  IF HasLatency(td)
      THEN Frac(old[1] * row.total_trades + Val(td.latency_seconds) * old[2],
                old[2] * (row.total_trades + 1))
      ELSE old

UpdatedRow(row, td) ==
  LET total_trades     == row.total_trades + 1
      pre_event_trades == UpdatedPreEventTrades(row, td)
      avg_latency      == UpdatedAvgLatency(row, td)
      insider_score    == calculate_insider_score(pre_event_trades, total_trades, avg_latency)
  IN  [ total_trades        |-> total_trades,
        pre_event_trades    |-> pre_event_trades,
        total_volume        |-> row.total_volume + td.size,
        avg_latency_seconds |-> avg_latency,
        insider_score       |-> insider_score,
        classification      |-> classify_wallet(insider_score, pre_event_trades, total_trades) ]

\* The body of update_wallet_stats between BEGIN EXCLUSIVE and commit, on the
\* row read by the SELECT: the row to write and how the call ends.
\*   "ok"        committed
\*   "swallowed" except Exception: rollback, no re-raise
\*   "raised"    except sqlite3.Error: rollback, re-raise
WalletTxnBody(row, td) ==
  IF row = NoRow
  THEN IF WalletRowChecks(InsertedRow(td))
       THEN [result |-> "ok", row |-> InsertedRow(td)]
       ELSE [result |-> "raised", row |-> row]
  ELSE IF UpdateRaisesTypeError(row, td)
       THEN [result |-> "swallowed", row |-> row]
       ELSE IF WalletRowChecks(UpdatedRow(row, td))
            THEN [result |-> "ok", row |-> UpdatedRow(row, td)]
            ELSE [result |-> "raised", row |-> row]

\* update_wallet_stats run alone on a connection: in_txn says the connection
\* still has the transaction open that a failed INSERT of save_trade left
\* behind, and then BEGIN EXCLUSIVE fails ("cannot start a transaction within
\* a transaction"), the handler rolls back and re-raises.
update_wallet_stats(wp, wallet, td, in_txn) ==
  IF in_txn
  THEN [result |-> "raised", wp |-> wp]
  ELSE LET body == WalletTxnBody(wp[wallet], td)
       IN  [result |-> body.result,
            wp     |-> IF body.result = "ok"
                       THEN [wp EXCEPT ![wallet] = body.row]
                       ELSE wp]

get_wallet_stats(wp, wallet) == wp[wallet]

\* ------------------------------------------------------------------------
\* config.py
\* ------------------------------------------------------------------------
MIN_BET_SIZE == 1000

ALERT_THRESHOLD == 80

\* combined signal gating
COMBINED_SIGNAL_MIN_STRENGTH == 80

CONFLICT_MIN_INSIDER_SCORE == 100

INSIDER_ONLY_REQUIRES_PRE_EVENT == TRUE

NEW_WALLET_DAYS_HIGH == 3

NEW_WALLET_DAYS_LOW == 7

LOW_ACTIVITY_THRESHOLD == 5

\* 0.10, in hundredths
LOW_ODDS_THRESHOLD == 10

TIME_TO_RESOLVE_HOURS == 24

SCORES ==
  [ wallet_age_high |-> 40, wallet_age_low |-> 20, against_trend |-> 25,
    large_bet |-> 20, timing |-> 15, low_activity |-> 10 ]

\* detector.py: "if error_count > 10: break"
MaxErrors == 10

\* detector.py: "if len(recent_alerts) >= 3" over hours=6
CoordinatedAlerts == 3

CoordinatedHours == 6

\* ------------------------------------------------------------------------
\* Markets and trades fed to the detector
\* ------------------------------------------------------------------------
\* hour of the day (UTC) at which a cycle runs
NowHour == 12

\* A market snapshot, with the features of its title that the regular
\* expressions of the code extract:
\*   endHours   endDate as hours from now (NULL: missing or unparsable)
\*   titleDays  date found in the title, as days from today (NULL: none)
\*   hft, crypto_price, absurd, weak_team, realtime: title matches the
\*   patterns of is_15min_market, the crypto/price keywords, the blacklist,
\*   the IMPOSSIBLE_ODDS names, the real-time keywords
Market(q, endHours, titleDays) ==
  [ question |-> q, endHours |-> endHours, titleDays |-> titleDays,
    hft |-> FALSE, crypto_price |-> FALSE, absurd |-> FALSE,
    weak_team |-> FALSE, realtime |-> FALSE ]

\* conditionId -> market; the title of c2 contains the title of c1, c3 ends
\* 20 hours from now
Markets ==
  [ c1 |-> Market("X wins", Some(72), NULL),
    c2 |-> Market("X wins by May", NULL, NULL),
    c3 |-> Market("Will Candidate X win the primary", Some(20), NULL) ]

\* SQL "market LIKE '%' || question || '%'": the stored title contains the
\* question
Like(stored, question) ==
  \/ stored = question
  \/ question = ""
  \/ (stored = "X wins by May" /\ question = "X wins")

\* slip: the outcome is compared as it is spelled
Lower_AsSpelled(outcome) == outcome

\* outcome.lower()
Lower(outcome) ==
  IF outcome \in {"No", "NO", "no"} THEN "no"
  ELSE IF outcome \in {"Yes", "YES", "yes"} THEN "yes"
  ELSE outcome

\* is_no = outcome and outcome.lower() == "no"
IsNo(outcome) == outcome # "" /\ Lower(outcome) = "no"

\* ------------------------------------------------------------------------
\* analyzer.py, event_detector_fixed.py: scoring and filtering
\* ------------------------------------------------------------------------
\* Prices are two-decimal strings turned into doubles; odds are doubles.
\* The double 1 - p is not always the double nearest to the decimal
\* (100 - p)/100: for these prices p (in hundredths) it lies one rounding
\* step below, respectively above it (1 - 0.9 = 0.09999999999999998).
RoundsBelow ==
  {7, 32, 33, 34, 54, 55, 56, 66, 67, 68, 77, 78, 79, 80, 81, 89, 90, 91, 92, 93}

RoundsAbove ==
  {18, 41, 42, 43, 57, 58, 59, 69, 70, 71, 82, 83, 84, 85, 94, 95, 96, 97, 98, 99}

\* Odds are counted in quarters of a hundredth: Dec(h) is the double of the
\* decimal h/100, and a double one rounding step away from it lies strictly
\* between Dec(h) and its neighbours.
Dec(h) == 4 * h

\* the double 1 - trade_price
OneMinus(trade_price) ==
  Dec(100 - trade_price)
  + (IF trade_price \in RoundsBelow THEN -1
     ELSE IF trade_price \in RoundsAbove THEN 1 ELSE 0)

get_effective_odds(trade_price, outcome) ==
  IF IsNo(outcome) THEN OneMinus(trade_price) ELSE Dec(trade_price)

calculate_wallet_age_days(first_activity) ==
  IF first_activity = NULL THEN 999 ELSE Val(first_activity)

calculate_wallet_age_score(first_activity) ==
  IF first_activity = NULL THEN 0
  ELSE IF calculate_wallet_age_days(first_activity) < NEW_WALLET_DAYS_HIGH
       THEN SCORES.wallet_age_high
  ELSE IF calculate_wallet_age_days(first_activity) < NEW_WALLET_DAYS_LOW
       THEN SCORES.wallet_age_low
  ELSE 0

calculate_against_trend_score(trade_price, outcome) ==
  LET effective == get_effective_odds(trade_price, outcome)
  IN  IF effective < Dec(LOW_ODDS_THRESHOLD) THEN SCORES.against_trend
      ELSE IF effective > Dec(95) THEN SCORES.against_trend
      ELSE 0

calculate_bet_size_score(amount) ==
  IF amount >= MIN_BET_SIZE THEN SCORES.large_bet ELSE 0

calculate_timing_score(endHours) ==
  IF endHours = NULL THEN 0
  ELSE IF 0 < Val(endHours) /\ Val(endHours) < TIME_TO_RESOLVE_HOURS
       THEN SCORES.timing
  ELSE 0

calculate_activity_score(total_activities) ==
  IF total_activities < LOW_ACTIVITY_THRESHOLD THEN SCORES.low_activity ELSE 0

\* slip: the cost is taken from the raw price on both sides
Amount_RawPrice(size, price, outcome) == (size * price) \div 100

\* cash cost of the bet: size * (1 - price) for NO, size * price for YES, in
\* whole dollars (the last bits of the double product are left out)
Amount(size, price, outcome) ==
  IF IsNo(outcome) THEN (size * (100 - price)) \div 100
  ELSE (size * price) \div 100

\* calculate_score, lines 476-482: the ratio behind potential_pnl and
\* pnl_multiplier as <<dividend, divisor>> in hundredths: price / (1 - price)
\* for NO, (1 - price) / price for YES
PnlRatio(trade_price, outcome) ==
  IF IsNo(outcome) THEN <<trade_price, 100 - trade_price>>
  ELSE <<100 - trade_price, trade_price>>

\* the division raises ZeroDivisionError
ScoreRaises(trade) == PnlRatio(trade.price, trade.outcome)[2] = 0

calculate_score(trade, market) ==
  [ score |-> calculate_wallet_age_score(trade.first_activity)
           + calculate_against_trend_score(trade.price, trade.outcome)
           + calculate_bet_size_score(Amount(trade.size, trade.price, trade.outcome))
           + calculate_timing_score(market.endHours)
           + calculate_activity_score(trade.total_count),
    amount |-> Amount(trade.size, trade.price, trade.outcome),
    odds |-> get_effective_odds(trade.price, trade.outcome),
    pnl_multiplier |-> IF ScoreRaises(trade) THEN NULL
                       ELSE Some(PnlRatio(trade.price, trade.outcome)),
    wallet_age_days |-> calculate_wallet_age_days(trade.first_activity),
    total_activities |-> trade.total_count ]

\* extract_event_timestamp: the event time in seconds from now, or NULL
extract_event_timestamp(market) ==
  IF market.endHours # NULL THEN Some(Val(market.endHours) * 3600)
  ELSE IF market.titleDays # NULL
       THEN Some((Val(market.titleDays) * 24 - NowHour) * 3600)
  ELSE IF market.realtime THEN Some(0)
  ELSE NULL

\* detect_pre_event_trade: latency_seconds of a pre-event trade, or NULL.
\* trade.ago is how many seconds before now the trade was made (NULL: the
\* trade has no timestamp).
detect_pre_event_trade(trade, market) ==
  LET event == extract_event_timestamp(market)
  IN  IF event = NULL THEN NULL
      ELSE IF trade.ago = NULL THEN NULL
      ELSE IF Val(event) + Val(trade.ago) > 0
           THEN Some(Val(event) + Val(trade.ago))
      ELSE NULL

calculate_latency_score(latency_seconds) ==
  IF latency_seconds < 0 THEN 0
  ELSE IF latency_seconds >= 30 * 60 THEN 40
  ELSE IF latency_seconds >= 20 * 60 THEN 35
  ELSE IF latency_seconds >= 10 * 60 THEN 30
  ELSE IF latency_seconds >= 5 * 60 THEN 20
  ELSE IF latency_seconds >= 2 * 60 THEN 10
  ELSE 0

\* slip: only a date in the title counts
SkipEventDay_TitleOnly(market) ==
  IF market.question # "" /\ market.titleDays # NULL THEN market.titleDays
  ELSE NULL

\* the date of the event should_skip_alert looks at, in days from today:
\* the date in the title first, the endDate otherwise
SkipEventDay(market) ==
  IF market.question # "" /\ market.titleDays # NULL THEN market.titleDays
  ELSE IF market.endHours # NULL
       THEN Some((NowHour + Val(market.endHours)) \div 24)
  ELSE NULL

\* slip: no trade is taken for a low return
LowRoi_Never(effective_odds) == FALSE

\* effective_odds >= 0.90 and pnl_mult = (1 - effective_odds) / effective_odds
\* below 0.10
LowRoi(effective_odds) ==
  effective_odds >= Dec(90) /\ 10 * (Dec(100) - effective_odds) < effective_odds

\* should_skip_alert: the kind of the reason, "" when the alert is allowed.
\* latency is latency_seconds or NULL (latency_minutes > 10080 is
\* latency_seconds > 604800).
should_skip_alert(market, odds, latency, outcome) ==
  LET effective_odds == get_effective_odds(odds, outcome)
      event_day      == SkipEventDay(market)
      titled         == market.question # ""
  IN  IF latency # NULL /\ Val(latency) > 10080 * 60 THEN "LONG_LEAD_TIME"
      ELSE IF titled /\ market.hft THEN "HFT_15MIN_MARKET"
      ELSE IF event_day # NULL /\ titled /\ market.crypto_price /\ Val(event_day) <= 3
           THEN "SHORT_CRYPTO_PRICE"
      ELSE IF event_day # NULL /\ Val(event_day) <= 1 THEN "SHORT_TERM_MARKET"
      ELSE IF titled /\ market.absurd THEN "ABSURD_MARKET"
      ELSE IF titled /\ LowRoi(effective_odds) THEN "LOW_ROI"
      ELSE IF titled /\ (effective_odds >= Dec(97) \/ effective_odds <= Dec(3))
           THEN "MARKET_MAKER"
      ELSE IF titled /\ effective_odds > Dec(95) /\ market.weak_team
           THEN "IMPOSSIBLE_ODDS"
      ELSE ""

\* the divisors of the divisions should_skip_alert evaluates: the effective
\* odds for max return and max ROI at odds of 0.90 and more, 1 - odds for
\* max ROI at odds of 0.03 and less; none before the odds rules are reached
SkipDivisors(market, odds, latency, outcome) ==
  LET effective_odds == get_effective_odds(odds, outcome)
      reason         == should_skip_alert(market, odds, latency, outcome)
      reached        == /\ market.question # ""
                        /\ reason \in {"LOW_ROI", "MARKET_MAKER", "IMPOSSIBLE_ODDS", ""}
  IN  IF ~reached THEN {}
      ELSE (IF effective_odds >= Dec(90) THEN {effective_odds} ELSE {})
           \cup (IF reason # "LOW_ROI" /\ effective_odds < Dec(97)
                    /\ effective_odds <= Dec(3)
                 THEN {Dec(100) - effective_odds} ELSE {})

\* should_skip_alert raises ZeroDivisionError
SkipRaises(market, odds, latency, outcome) ==
  0 \in SkipDivisors(market, odds, latency, outcome)

\* ------------------------------------------------------------------------
\* irrationality.py: mispricing, irrationality and the combined signal
\* ------------------------------------------------------------------------
\* insider_position.upper() if insider_position else "YES"
Upper(insider_position) ==
  IF insider_position = "" THEN "YES"
  ELSE IF insider_position \in {"No", "NO", "no"} THEN "NO"
  ELSE IF insider_position \in {"Yes", "YES", "yes"} THEN "YES"
  ELSE insider_position

\* slip: the irrationality score is not added to an ALPHA signal
get_combined_signal_Plain(insider_score, insider_position, irrationality_score, is_mispriced, edge) ==
  LET position == Upper(insider_position)
  IN  IF position = "NO" /\ is_mispriced
      THEN [signal_type |-> "ALPHA", signal_strength |-> insider_score]
      ELSE IF position = "YES" /\ is_mispriced
      THEN [signal_type |-> "CONFLICT", signal_strength |-> insider_score]
      ELSE IF position = "YES" /\ edge < 0
      THEN [signal_type |-> "INSIDER_CONFIRMED", signal_strength |-> insider_score + 20]
      ELSE IF position = "NO" /\ edge < 0
      THEN [signal_type |-> "CONTRARIAN_INSIDER", signal_strength |-> insider_score]
      ELSE [signal_type |-> "INSIDER_ONLY", signal_strength |-> insider_score]

\* irrationality.py: the signal type and strength; irrationality_score,
\* is_mispriced and edge are the fields read from the two dictionaries, edge
\* in hundredths
get_combined_signal(insider_score, insider_position, irrationality_score, is_mispriced, edge) ==
  LET position == Upper(insider_position)
  IN  IF position = "NO" /\ is_mispriced
      THEN [signal_type |-> "ALPHA",
            signal_strength |-> insider_score + irrationality_score]
      ELSE IF position = "YES" /\ is_mispriced
      THEN [signal_type |-> "CONFLICT", signal_strength |-> insider_score]
      ELSE IF position = "YES" /\ edge < 0
      THEN [signal_type |-> "INSIDER_CONFIRMED", signal_strength |-> insider_score + 20]
      ELSE IF position = "NO" /\ edge < 0
      THEN [signal_type |-> "CONTRARIAN_INSIDER", signal_strength |-> insider_score]
      ELSE [signal_type |-> "INSIDER_ONLY", signal_strength |-> insider_score]

\* irrationality.py, step 2: probabilities are counted in units of
\* 1/40,000,000, so that every product and blend below is a whole number
\* of units and one unit stays for the rounding of the float arithmetic
Fine(hundredths) == 400000 * hundredths

BASE_RATES ==
  [historically_near_zero |-> Fine(1), rare |-> Fine(5),
   occasional |-> Fine(15), common |-> Fine(35)]

\* the multipliers, in tenths
CATEGORY_PROBABILITY_MULT ==
  [meme |-> 8, conspiracy |-> 7, politics_far |-> 10, politics_near |-> 10,
   geopolitics |-> 12, macro |-> 13, sports |-> 10, crypto |-> 10, other |-> 10]

\* the min_edge and strength fields of the bias profiles
CATEGORY_BIAS ==
  [meme          |-> [strength |-> "very_high", min_edge |-> Fine(3)],
   conspiracy    |-> [strength |-> "very_high", min_edge |-> Fine(4)],
   politics_far  |-> [strength |-> "high",      min_edge |-> Fine(5)],
   politics_near |-> [strength |-> "medium",    min_edge |-> Fine(3)],
   geopolitics   |-> [strength |-> "high",      min_edge |-> Fine(5)],
   macro         |-> [strength |-> "high",      min_edge |-> Fine(6)],
   sports        |-> [strength |-> "medium",    min_edge |-> Fine(5)],
   crypto        |-> [strength |-> "medium",    min_edge |-> Fine(5)],
   other         |-> [strength |-> "medium",    min_edge |-> Fine(5)]]

\* CATEGORY_BIAS.get(category, CATEGORY_BIAS['other'])
CategoryInfo(category) ==
  IF category \in DOMAIN CATEGORY_BIAS THEN CATEGORY_BIAS[category]
  ELSE CATEGORY_BIAS["other"]

\* CATEGORY_PROBABILITY_MULT.get(category, 1.0)
CategoryMult(category) ==
  IF category \in DOMAIN CATEGORY_PROBABILITY_MULT
  THEN CATEGORY_PROBABILITY_MULT[category] ELSE 10

\* the float results differ from the exact ones by less than one unit: the
\* exact value, or a float just below or just above it
Rounding == {-1, 0, 1}

\* slip: the estimate is not capped
CapEstimate_None(base) == base

\* rational_estimate = min(base, 0.50)
CapEstimate(base) == IF base < Fine(50) THEN base ELSE Fine(50)

\* calculate_mispricing: yes_price in hundredths; factors carries
\* base_rate_class, independent_conditions_required, category and
\* confidence_in_analysis; rounding is the float error of the edge
calculate_mispricing(yes_price, factors, rounding) ==
  LET base_rate_class == factors.base_rate_class
      rate == IF base_rate_class \in DOMAIN BASE_RATES
              THEN BASE_RATES[base_rate_class] ELSE Fine(10)
      n_conditions == factors.independent_conditions_required
      penalised == IF n_conditions >= 3 THEN rate \div 2
                   ELSE IF n_conditions = 2 THEN (rate * 3) \div 4
                   ELSE rate
      category == factors.category
      adjusted == (penalised * CategoryMult(category)) \div 10
      confidence == factors.confidence_in_analysis
      base == IF confidence = "low"
              THEN (adjusted * 6) \div 10 + (Fine(yes_price) * 4) \div 10
              ELSE IF confidence = "medium"
              THEN (adjusted * 8) \div 10 + (Fine(yes_price) * 2) \div 10
              ELSE adjusted
      rational_estimate == CapEstimate(base)
      edge == Fine(yes_price) - rational_estimate + rounding
      min_edge == CategoryInfo(category).min_edge
  IN  [rational_estimate |-> rational_estimate,
       market_price |-> Fine(yes_price),
       edge |-> edge,
       min_edge_required |-> min_edge,
       is_mispriced |-> edge > min_edge,
       edge_quality |-> IF edge > min_edge * 2 THEN "STRONG"
                        ELSE IF edge > min_edge THEN "MODERATE"
                        ELSE IF edge > 0 THEN "WEAK"
                        ELSE "NONE",
       base_rate_class |-> base_rate_class,
       confidence |-> confidence]

\* the CATEGORY_KEYWORDS patterns found in a question, as <<category, number
\* of patterns found>> in the order of the table: 'fed.*rate' and
\* 'recession', 'collapse' and 'bitcoin'; the other questions match none
KeywordHits(market_question) ==
  IF market_question = "Will the Fed cut rates before the recession"
  THEN << <<"macro", 2>> >>
  ELSE IF market_question = "Will Bitcoin collapse"
  THEN << <<"macro", 1>>, <<"crypto", 1>> >>
  ELSE << >>

\* the crisis_boosters found in a question ('collapse'); no question of
\* the model holds a meme booster
CrisisBooster(market_question) == market_question = "Will Bitcoin collapse"

MemeBooster(market_question) == FALSE

\* classify_category: the category with the most patterns found, the first
\* of the table among equals; 'other' for no question and no pattern
classify_category(market_question) ==
  LET category_scores == KeywordHits(market_question)
  IN  IF market_question = "" \/ category_scores = << >> THEN "other"
      ELSE LET best == CHOOSE i \in DOMAIN category_scores :
                         /\ \A j \in DOMAIN category_scores :
                              category_scores[j][2] <= category_scores[i][2]
                         /\ \A j \in 1..(i - 1) :
                              category_scores[j][2] < category_scores[i][2]
           IN  category_scores[best][1]

\* calculate_irrationality_score: yes_price and price_change_24h in
\* hundredths, edge in units of Fine (edge_percent is edge * 100)
calculate_irrationality_score(market_question, yes_price, volume_24h, volume_avg_30d, price_change_24h, edge) ==
  LET category == classify_category(market_question)
      category_info == CategoryInfo(category)
      longshot_threshold == IF category \in {"geopolitics", "macro"} THEN 30
                            ELSE IF category \in {"meme", "conspiracy"} THEN 25
                            ELSE 15
      longshot == IF yes_price >= longshot_threshold THEN 0
                  ELSE IF category_info.strength = "very_high" THEN 35
                  ELSE IF category_info.strength = "high" THEN 25
                  ELSE IF category_info.strength = "medium" THEN 15
                  ELSE 5
      volume == IF volume_avg_30d > 0 /\ volume_24h > 0
                THEN IF volume_24h > 3 * volume_avg_30d THEN 25
                     ELSE IF volume_24h > 2 * volume_avg_30d THEN 15
                     ELSE 0
                ELSE 0
      bias_points == IF category_info.strength = "very_high" THEN 20
                     ELSE IF category_info.strength = "high" THEN 15
                     ELSE IF category_info.strength = "medium" THEN 10
                     ELSE 5
      change == IF price_change_24h < 0 THEN 0 - price_change_24h
                ELSE price_change_24h
      move == IF change > 10 THEN 15 ELSE IF change > 5 THEN 8 ELSE 0
      meme == IF MemeBooster(market_question) THEN 5 ELSE 0
      crisis == IF CrisisBooster(market_question) THEN 10 ELSE 0
      edge_boost == IF edge > 0
                    THEN IF edge >= Fine(15) THEN 25
                         ELSE IF edge >= Fine(10) THEN 15
                         ELSE IF edge >= Fine(5) THEN 8
                         ELSE 0
                    ELSE 0
      score == longshot + volume + bias_points + move + meme + crisis + edge_boost
      capped == IF score < 100 THEN score ELSE 100
  IN  [irrationality_score |-> capped, category |-> category,
       is_irrational |-> capped >= 30]

\* get_factors_with_fallback: reply is what get_claude_factors returned,
\* NULL when the service failed or its answer lacked a required field
get_factors_with_fallback(yes_price, category, reply) ==
  IF reply # NULL THEN Val(reply)
  ELSE LET by_price == IF yes_price < 5 THEN "historically_near_zero"
                       ELSE IF yes_price < 12 THEN "rare"
                       ELSE IF yes_price < 25 THEN "occasional"
                       ELSE "common"
           base_rate_class ==
             IF category \in {"meme", "conspiracy"} /\ by_price # "common"
             THEN "historically_near_zero" ELSE by_price
       IN  [base_rate_class |-> base_rate_class,
            independent_conditions_required |-> 2,
            category |-> category,
            confidence_in_analysis |-> "low"]

\* analyze_market_irrationality: activity carries volume_24h, volume_avg_30d
\* and price_change_24h; reply and rounding as above
analyze_market_irrationality(market_question, yes_price, activity, insider_score, insider_position, reply, rounding) ==
  LET irrationality_initial ==
        calculate_irrationality_score(market_question, yes_price, activity.volume_24h,
          activity.volume_avg_30d, activity.price_change_24h, 0)
      factors == get_factors_with_fallback(yes_price, irrationality_initial.category, reply)
      mispricing == calculate_mispricing(yes_price, factors, rounding)
      irrationality ==
        IF mispricing.edge > 0
        THEN calculate_irrationality_score(market_question, yes_price,
               activity.volume_24h, activity.volume_avg_30d,
               activity.price_change_24h, mispricing.edge)
        ELSE irrationality_initial
      combined == get_combined_signal(insider_score, insider_position,
                    irrationality.irrationality_score, mispricing.is_mispriced,
                    mispricing.edge)
  IN  [irrationality |-> irrationality, factors |-> factors,
       mispricing |-> mispricing, combined_signal |-> combined]

\* the activity the detector passes (the defaults)
NoActivity == [volume_24h |-> 0, volume_avg_30d |-> 0, price_change_24h |-> 0]

\* an answer of the factor service that makes a price of 0.05 mispriced
NearZeroReply ==
  Some([base_rate_class |-> "historically_near_zero", independent_conditions_required |-> 1,
        category |-> "politics_near", confidence_in_analysis |-> "high"])

\* ------------------------------------------------------------------------
\* database_fixed.py: trade and alert history
\* ------------------------------------------------------------------------
\* SELECT id FROM alert_history WHERE wallet = ? AND trade_hash = ?
is_alert_sent(ah, wallet, trade_hash) ==
  \E r \in ah : r.wallet = wallet /\ r.trade_hash = trade_hash

\* trade_hash TEXT UNIQUE
HashTaken(rows, trade_hash) == \E r \in rows : r.trade_hash = trade_hash

\* INSERT OR IGNORE INTO alert_history ... sent = 1: a row whose trade_hash
\* is already in the table is dropped without an error.  The columns
\* insider_score and latency_seconds are written and never read.
mark_alert_sent(ah, wallet, market, trade_hash, at) ==
  IF HashTaken(ah, trade_hash) THEN ah
  ELSE ah \cup {[wallet |-> wallet, market |-> market, trade_hash |-> trade_hash,
                 alert_timestamp |-> at, sent |-> 1]}

\* rows WHERE market LIKE %market% AND alert_timestamp >= cutoff AND sent = 1
get_recent_alerts_for_market(ah, market, at, hours) ==
  {r \in ah : Like(r.market, market) /\ r.alert_timestamp >= at - hours /\ r.sent = 1}

\* save_trade: the INSERT fails with IntegrityError on a trade_hash already
\* stored; the function returns False and leaves the implicit transaction of
\* the connection open.
save_trade(th, wallet, trade_hash) ==
  IF HashTaken(th, trade_hash)
  THEN [saved |-> FALSE, th |-> th]
  ELSE [saved |-> TRUE, th |-> th \cup {[wallet |-> wallet, trade_hash |-> trade_hash]}]

\* ------------------------------------------------------------------------
\* detector.py: detect_insider_trades
\* ------------------------------------------------------------------------
Hashes == {"h1", "h2", "h3"}

Pairs == Wallets \X Hashes

\* A trade as the trade source returns it, together with what
\* get_wallet_activity answers for its wallet (total_count and the age in
\* days behind first_activity_timestamp) and what the factor service answers
\* for its market (reply, NULL: no answer).  malformed: "size" or "price" is
\* not a number.  ago: seconds since the trade, NULL without "timestamp".
Suspect ==
  [ wallet |-> "w1", hash |-> "h1", cond |-> "c1", malformed |-> FALSE,
    size |-> 30000, price |-> 5, outcome |-> "Yes", ago |-> Some(60),
    total_count |-> 2, first_activity |-> Some(2), reply |-> NULL ]

\* new wallets betting a long shot: score 95 and more
SuspectTrades ==
  {[Suspect EXCEPT !.wallet = w, !.hash = h] : w \in Wallets, h \in Hashes}
  \cup {[Suspect EXCEPT !.wallet = "w2", !.hash = "h2", !.cond = "c2"]}

\* an old, busy wallet: score 45
OrdinaryTrades ==
  {[Suspect EXCEPT !.hash = h, !.total_count = 50, !.first_activity = Some(30)] :
     h \in {"h1", "h2"}}

OtherTrades ==
  { [Suspect EXCEPT !.hash = "h3", !.size = 100000, !.price = 2],   \* market-maker odds
    [Suspect EXCEPT !.price = 120],                                 \* price > 1
    [Suspect EXCEPT !.price = 100, !.outcome = "No"],               \* NO at price 1, amount 0
    [Suspect EXCEPT !.price = -10],                                 \* price < 0
    [Suspect EXCEPT !.size = 0],                                    \* size 0
    [Suspect EXCEPT !.size = 1000, !.price = 50],                   \* $500
    [Suspect EXCEPT !.wallet = ""],
    [Suspect EXCEPT !.cond = ""],
    [Suspect EXCEPT !.total_count = 0, !.first_activity = NULL],    \* no activity found
    [Suspect EXCEPT !.malformed = TRUE],
    [Suspect EXCEPT !.hash = "h2", !.ago = NULL] }

Trades == SuspectTrades \cup OrdinaryTrades \cup OtherTrades

\* the trades of the error-threshold runs
LoopTrades ==
  OrdinaryTrades \cup
  { [Suspect EXCEPT !.malformed = TRUE], [Suspect EXCEPT !.price = 120] }

\* size 20000 at price 0.05, YES, wallet 2 days old with 2 activities, on
\* the market that ends 20 hours from now
PrimaryTrade == [Suspect EXCEPT !.hash = "h3", !.cond = "c3", !.size = 20000]

\* the trades of the alert runs: two that qualify, one of an old and busy
\* wallet, one on a market that ends within a day, and two on the market
\* without an end date, for one of which the factor service answers
AlertTrades ==
  { Suspect, [Suspect EXCEPT !.hash = "h2"],
    [Suspect EXCEPT !.hash = "h2", !.total_count = 50, !.first_activity = Some(30)],
    PrimaryTrade,
    [Suspect EXCEPT !.wallet = "w2", !.hash = "h2", !.cond = "c2"],
    [Suspect EXCEPT !.wallet = "w2", !.hash = "h3", !.cond = "c2", !.reply = NearZeroReply] }

\* what the direct update_wallet_stats calls on a wallet carried so far
NoCalls == [n |-> 0, pre |-> 0, volume |-> 0, lat_sum |-> 0, lat_cnt |-> 0, last |-> "none"]

RecordCall(h, td, result) ==
  [ n       |-> h.n + 1,
    pre     |-> h.pre + (IF td.is_pre_event THEN 1 ELSE 0),
    volume  |-> h.volume + td.size,
    lat_sum |-> h.lat_sum + (IF HasLatency(td)
                             THEN Val(td.latency_seconds) ELSE 0),
    lat_cnt |-> h.lat_cnt + (IF HasLatency(td)
                             THEN 1 ELSE 0),
    last    |-> result ]

\* two threads, or two overlapping runs, each with its own connection
Workers == {1, 2}

NoCall == [none |-> TRUE]

NoIteration == [scored |-> 0, saved |-> 0, updated |-> 0, marked |-> 0]

Init ==
  /\ wallet_performance = [w \in Wallets |-> NoRow]
  /\ trade_history = {}
  /\ alert_history = {}
  /\ now = 0
  /\ cycle = 0
  /\ pc = "idle"
  /\ batch_len = 0
  /\ idx = 0
  /\ wallet_stats_cache = [w \in Wallets |-> NoRow]
  /\ alerts = <<>>
  /\ error_count = 0
  /\ filtered_invalid_data = 0
  /\ processed_count = 0
  /\ aborted = FALSE
  /\ emitted = [p \in Pairs |-> 0]
  /\ calls = NoIteration
  /\ consec = 0
  /\ stat_calls = [w \in Wallets |-> NoCalls]
  /\ wpc = [k \in Workers |-> "idle"]
  /\ wcall = [k \in Workers |-> NoCall]
  /\ wrow = [k \in Workers |-> NoRow]
  /\ db_lock = 0
  /\ txn_log = <<>>
  /\ started = 0
  /\ arg = NoCall
  /\ res = NoCall
  /\ tracked_hashes = {}
  /\ existing_alerts = {}

\* detect_insider_trades up to the loop: the batch is fetched, the wallet
\* stats of its wallets are pre-fetched, the counters start at 0
StartCycle(max_len, max_cycles) ==
  /\ pc = "idle"
  /\ cycle < max_cycles
  /\ \E n \in 1..max_len, step \in {0, 7} :   \* hours between two polling cycles
       /\ batch_len' = n
       /\ now' = IF cycle = 0 THEN now ELSE now + step
  /\ cycle' = cycle + 1
  /\ pc' = "loop"
  /\ idx' = 0
  /\ wallet_stats_cache' = [w \in Wallets |-> get_wallet_stats(wallet_performance, w)]
  /\ alerts' = <<>>
  /\ error_count' = 0
  /\ filtered_invalid_data' = 0
  /\ processed_count' = 0
  /\ aborted' = FALSE
  /\ calls' = NoIteration
  /\ consec' = 0
  /\ UNCHANGED <<dbvars, emitted, stat_calls, callvars, mainvars, concvars>>

\* slip: only the cash amount is validated
InvalidData_AmountOnly(t) == Amount(t.size, t.price, t.outcome) <= 0

\* price outside [0, 1] or cash amount <= 0
InvalidData(t) ==
  \/ Amount(t.size, t.price, t.outcome) <= 0
  \/ ~(0 <= t.price /\ t.price <= 100)

\* Wallet History Score, from the cached stats
HistoryScore(wallet_stats) ==
  IF wallet_stats # NoRow /\ wallet_stats.total_trades >= 3
  THEN IF wallet_stats.insider_score >= 7000 THEN 20
       ELSE IF wallet_stats.insider_score >= 5000 THEN 10
       ELSE 0
  ELSE 0

\* analysis['score'] after the latency and the history score are added
AggregatedScore(t, cache) ==
  LET market  == Markets[t.cond]
      latency == detect_pre_event_trade(t, market)
  IN  calculate_score(t, market).score
      + (IF latency # NULL THEN calculate_latency_score(Val(latency)) ELSE 0)
      + HistoryScore(cache[t.wallet])

\* Where one iteration of the loop leaves the straight path, in the order of
\* the code.  PreStage: up to the duplicate check, "pass" when the trade goes
\* on to the wallet-activity lookup.
PreStage(t, ah) ==
  IF t.malformed THEN "error"
  ELSE IF InvalidData(t) THEN "invalid"
  ELSE IF Amount(t.size, t.price, t.outcome) < MIN_BET_SIZE THEN "small"
  ELSE IF t.wallet = "" THEN "no_wallet"
  ELSE IF t.cond = "" THEN "no_condition"
  ELSE IF is_alert_sent(ah, t.wallet, t.hash) THEN "duplicate"
  ELSE "pass"

\* slip: the filter cascade is not consulted
PostStage_Unfiltered(t, ah, cache, at) ==
  IF t.total_count = 0 THEN "no_activity"
  ELSE IF ScoreRaises(t) THEN "error"
  ELSE IF AggregatedScore(t, cache) < ALERT_THRESHOLD THEN "below"
  ELSE IF Cardinality(get_recent_alerts_for_market(ah, Markets[t.cond].question,
                                                   at, CoordinatedHours))
          >= CoordinatedAlerts
       THEN "coordinated"
  ELSE "alert"

\* PostStage: from the wallet-activity lookup to the alert; "below",
\* "filtered" and "alert" go on to the persist part.
PostStage(t, ah, cache, at) ==
  IF t.total_count = 0 THEN "no_activity"
  ELSE IF ScoreRaises(t) THEN "error"
  ELSE IF AggregatedScore(t, cache) < ALERT_THRESHOLD THEN "below"
  ELSE IF should_skip_alert(Markets[t.cond], t.price,
                            detect_pre_event_trade(t, Markets[t.cond]), t.outcome) # ""
       THEN "filtered"
  ELSE IF Cardinality(get_recent_alerts_for_market(ah, Markets[t.cond].question,
                                                   at, CoordinatedHours))
          >= CoordinatedAlerts
       THEN "coordinated"
  ELSE "alert"

Stage(t, ah, cache, at) ==
  IF PreStage(t, ah) # "pass" THEN PreStage(t, ah) ELSE PostStage(t, ah, cache, at)

\* the stages after which the iteration reaches "Save Trade to History"
Persisting == {"below", "filtered", "alert"}

\* The persist part: building trade_record raises without a timestamp;
\* save_trade; update_wallet_stats, which raises when save_trade left the
\* connection inside a transaction.
Persist(t, wp, th) ==
  IF t.ago = NULL
  THEN [raised |-> TRUE, saved |-> 0, updated |-> 0, wp |-> wp, th |-> th]
  ELSE LET s  == save_trade(th, t.wallet, t.hash)
           td == [ size |-> Amount(t.size, t.price, t.outcome),
                   is_pre_event |-> detect_pre_event_trade(t, Markets[t.cond]) # NULL,
                   latency_seconds |-> detect_pre_event_trade(t, Markets[t.cond]) ]
           u  == update_wallet_stats(wp, t.wallet, td, ~s.saved)
       IN  [raised |-> u.result = "raised", saved |-> 1, updated |-> 1,
            wp |-> u.wp, th |-> s.th]

\* the loop is left when the error counter passes the threshold
TooManyErrors(errors) == errors > MaxErrors

\* the alert appended for a trade; rounding is the float error of the edge
Alert(t, cache, rounding) ==
  LET market   == Markets[t.cond]
      score    == AggregatedScore(t, cache)
      analysis == analyze_market_irrationality(market.question, t.price, NoActivity,
                                               score, t.outcome, t.reply, rounding)
  IN  [wallet |-> t.wallet, trade_hash |-> t.hash, market |-> market.question,
       score |-> score, latency |-> detect_pre_event_trade(t, market),
       combined_signal |-> analysis.combined_signal]

\* one iteration of "for idx, trade in enumerate(trades)"
ProcessTrade(t) ==
  /\ pc = "loop"
  /\ idx < batch_len
  /\ ~aborted
  /\ LET stage   == Stage(t, alert_history, wallet_stats_cache, now)
         alerted == stage = "alert"
         ah1     == IF alerted
                    THEN mark_alert_sent(alert_history, t.wallet,
                                         Markets[t.cond].question, t.hash, now)
                    ELSE alert_history
         p       == IF stage \in Persisting
                    THEN Persist(t, wallet_performance, trade_history)
                    ELSE [raised |-> FALSE, saved |-> 0, updated |-> 0,
                          wp |-> wallet_performance, th |-> trade_history]
         failed  == stage = "error" \/ p.raised
     IN  /\ alert_history' = ah1
         /\ wallet_performance' = p.wp
         /\ trade_history' = p.th
         /\ IF alerted
            THEN \E rounding \in Rounding :
                   alerts' = Append(alerts, Alert(t, wallet_stats_cache, rounding))
            ELSE alerts' = alerts
         /\ emitted' = IF alerted
                       THEN [emitted EXCEPT ![<<t.wallet, t.hash>>] = @ + 1]
                       ELSE emitted
         /\ filtered_invalid_data' = filtered_invalid_data + (IF stage = "invalid" THEN 1 ELSE 0)
         /\ processed_count' = processed_count
                               + (IF stage \in Persisting /\ ~p.raised THEN 1 ELSE 0)
         /\ error_count' = error_count + (IF failed THEN 1 ELSE 0)
         /\ aborted' = (failed /\ TooManyErrors(error_count + 1))
         /\ consec' = IF failed THEN consec + 1 ELSE 0
         /\ calls' = [ scored  |-> IF stage \in Persisting \cup {"coordinated"} THEN 1 ELSE 0,
                       saved   |-> p.saved,
                       updated |-> p.updated,
                       marked  |-> IF alerted THEN 1 ELSE 0 ]
  /\ idx' = idx + 1
  /\ UNCHANGED <<now, cycle, pc, batch_len, wallet_stats_cache, stat_calls, callvars, mainvars, concvars>>

\* the summary is printed and the alerts are returned
EndCycle ==
  /\ pc = "loop"
  /\ (idx = batch_len \/ aborted)
  /\ pc' = "idle"
  /\ UNCHANGED <<dbvars, now, cycle, batch_len, idx, wallet_stats_cache, alerts,
                 error_count, filtered_invalid_data, processed_count, aborted,
                 emitted, calls, consec, stat_calls, callvars, mainvars, concvars>>

Next ==
  \/ StartCycle(MaxBatch, MaxCycles)
  \/ \E t \in Trades : ProcessTrade(t)
  \/ EndCycle

Spec == Init /\ [][Next]_vars

\* one cycle over a long batch
NextLoop ==
  \/ StartCycle(MaxLoopBatch, 1)
  \/ \E t \in LoopTrades : ProcessTrade(t)
  \/ EndCycle

SpecLoop == Init /\ [][NextLoop]_vars

\* one cycle over the trades of the alert runs
NextAlert ==
  \/ StartCycle(MaxAlertBatch, 1)
  \/ \E t \in AlertTrades : ProcessTrade(t)
  \/ EndCycle

SpecAlert == Init /\ [][NextAlert]_vars

\* ------------------------------------------------------------------------
\* Two runs of the batch loop over the same database
\* ------------------------------------------------------------------------
\* Each run works on one trade at a time.  Between the duplicate check and
\* the alert lie the wallet-activity request and the scoring; the statements
\* of one database call are one step.

\* suspect trades of one wallet: a trade_hash belongs to one pair only
RunTrades == {[Suspect EXCEPT !.hash = h] : h \in Hashes}

\* lines 77-142: validation, filters, is_alert_sent
RunCheck(k, t) ==
  /\ wpc[k] = "idle"
  /\ started < MaxRunTrades
  /\ started' = started + 1
  /\ IF PreStage(t, alert_history) = "pass"
     THEN /\ wpc' = [wpc EXCEPT ![k] = "checked"]
          /\ wcall' = [wcall EXCEPT ![k] = t]
     ELSE /\ wpc' = wpc
          /\ wcall' = [wcall EXCEPT ![k] = NoCall]
  /\ UNCHANGED <<dbvars, detvars, stat_calls, callvars, mainvars, wrow, db_lock, txn_log>>

\* lines 162-316: scoring, filters, alerts.append and mark_alert_sent
RunAlert(k) ==
  /\ wpc[k] = "checked"
  /\ LET t       == wcall[k]
         stage   == PostStage(t, alert_history, wallet_stats_cache, now)
     IN  /\ alert_history' = IF stage = "alert"
                             THEN mark_alert_sent(alert_history, t.wallet,
                                                  Markets[t.cond].question, t.hash, now)
                             ELSE alert_history
         /\ emitted' = IF stage = "alert"
                       THEN [emitted EXCEPT ![<<t.wallet, t.hash>>] = @ + 1]
                       ELSE emitted
         /\ wpc' = [wpc EXCEPT ![k] = IF stage \in Persisting THEN "alerted" ELSE "idle"]
  /\ UNCHANGED <<wallet_performance, trade_history, now, cycle, pc, batch_len, idx,
                 wallet_stats_cache, alerts, error_count, filtered_invalid_data,
                 processed_count, aborted, calls, consec, stat_calls, callvars, mainvars,
                 wcall, wrow, db_lock, txn_log, started>>

\* lines 318-340: save_trade and update_wallet_stats
RunPersist(k) ==
  /\ wpc[k] = "alerted"
  /\ LET p == Persist(wcall[k], wallet_performance, trade_history)
     IN  /\ wallet_performance' = p.wp
         /\ trade_history' = p.th
  /\ wpc' = [wpc EXCEPT ![k] = "idle"]
  /\ wcall' = [wcall EXCEPT ![k] = NoCall]
  /\ UNCHANGED <<alert_history, detvars, stat_calls, callvars, mainvars, wrow, db_lock, txn_log, started>>

NextDedup ==
  \/ \E k \in Workers, t \in RunTrades : RunCheck(k, t)
  \/ \E k \in Workers : RunAlert(k)
  \/ \E k \in Workers : RunPersist(k)

SpecDedup == Init /\ [][NextDedup]_vars

\* ------------------------------------------------------------------------
\* Concurrent update_wallet_stats calls
\* ------------------------------------------------------------------------
TxnData ==
  { [is_pre_event |-> TRUE,  size |-> 1000, latency_seconds |-> Some(600)],
    [is_pre_event |-> FALSE, size |-> 2500, latency_seconds |-> NULL] }

\* slip: a deferred BEGIN, which takes no lock before the SELECT
ExclusiveGranted_Deferred(k) == TRUE

\* BEGIN EXCLUSIVE is granted when no other connection is in a write
\* transaction
ExclusiveGranted(k) == db_lock = 0

\* conn.execute("BEGIN EXCLUSIVE")
TxnBegin(k, w, td) ==
  /\ wpc[k] = "idle"
  /\ started < MaxTxnCalls
  /\ ExclusiveGranted(k)
  /\ started' = started + 1
  /\ db_lock' = k
  /\ wpc' = [wpc EXCEPT ![k] = "begun"]
  /\ wcall' = [wcall EXCEPT ![k] = [wallet |-> w, td |-> td]]
  /\ UNCHANGED <<dbvars, detvars, stat_calls, callvars, mainvars, wrow, txn_log>>

\* BEGIN EXCLUSIVE while another connection holds the lock for longer than
\* busy_timeout: "database is locked", rollback, re-raise
TxnBusy(k, w, td) ==
  /\ wpc[k] = "idle"
  /\ started < MaxTxnCalls
  /\ db_lock # 0
  /\ db_lock # k
  /\ started' = started + 1
  /\ UNCHANGED <<dbvars, detvars, stat_calls, callvars, mainvars, wpc, wcall, wrow, db_lock, txn_log>>

\* SELECT ... FROM wallet_performance WHERE wallet = ?
TxnSelect(k) ==
  /\ wpc[k] = "begun"
  /\ wrow' = [wrow EXCEPT ![k] = wallet_performance[wcall[k].wallet]]
  /\ wpc' = [wpc EXCEPT ![k] = "selected"]
  /\ UNCHANGED <<dbvars, detvars, stat_calls, callvars, mainvars, wcall, db_lock, txn_log, started>>

EndOfCall(k) ==
  /\ wpc' = [wpc EXCEPT ![k] = "idle"]
  /\ wcall' = [wcall EXCEPT ![k] = NoCall]
  /\ wrow' = [wrow EXCEPT ![k] = NoRow]
  /\ db_lock' = IF db_lock = k THEN 0 ELSE db_lock
  /\ txn_log' = Append(txn_log, [worker |-> k, wallet |-> wcall[k].wallet,
                                 td |-> wcall[k].td])

\* the computation and the UPDATE or INSERT inside the transaction, or the
\* exception and the rollback
TxnWrite(k) ==
  /\ wpc[k] = "selected"
  /\ LET body == WalletTxnBody(wrow[k], wcall[k].td)
     IN  IF body.result = "ok"
         THEN /\ wrow' = [wrow EXCEPT ![k] = body.row]
              /\ wpc' = [wpc EXCEPT ![k] = "written"]
              /\ UNCHANGED <<wcall, db_lock, txn_log>>
         ELSE EndOfCall(k)
  /\ UNCHANGED <<dbvars, detvars, stat_calls, callvars, mainvars, started>>

\* conn.commit()
TxnCommit(k) ==
  /\ wpc[k] = "written"
  /\ wallet_performance' = [wallet_performance EXCEPT ![wcall[k].wallet] = wrow[k]]
  /\ EndOfCall(k)
  /\ UNCHANGED <<trade_history, alert_history, detvars, stat_calls, callvars, mainvars, started>>

NextTxn ==
  \/ \E k \in Workers, w \in Wallets, td \in TxnData : TxnBegin(k, w, td)
  \/ \E k \in Workers, w \in Wallets, td \in TxnData : TxnBusy(k, w, td)
  \/ \E k \in Workers : TxnSelect(k)
  \/ \E k \in Workers : TxnWrite(k)
  \/ \E k \in Workers : TxnCommit(k)

SpecTxn == Init /\ [][NextTxn]_vars

\* ------------------------------------------------------------------------
\* Direct calls of update_wallet_stats
\* ------------------------------------------------------------------------
InitWallet == Init

CallsMade == stat_calls["w1"].n + stat_calls["w2"].n

UpdateWalletStats(w, td) ==
  /\ CallsMade < MaxCalls
  /\ LET r == update_wallet_stats(wallet_performance, w, td, FALSE)
     IN  /\ wallet_performance' = r.wp
         /\ stat_calls' = [stat_calls EXCEPT ![w] = RecordCall(@, td, r.result)]
         /\ UNCHANGED <<trade_history, alert_history, detvars, concvars, callvars, mainvars>>

NextWallet == \E w \in Wallets, td \in TradeData : UpdateWalletStats(w, td)

SpecWallet == InitWallet /\ [][NextWallet]_vars

\* ------------------------------------------------------------------------
\* Functions of analyzer.py, collector.py and irrationality.py called on
\* their own
\* ------------------------------------------------------------------------
\* prices with two decimals, 0.00 to 1.00
Prices == 0..100

Outcomes == {"Yes", "YES", "yes", "No", "NO", "no", "Up", ""}

\* the other variables of a state in which one function is called
CallOnly == UNCHANGED <<dbvars, detvars, stat_calls, concvars, mainvars>>

CallEffectiveOdds(trade_price, outcome) ==
  /\ arg' = [fn |-> "get_effective_odds", trade_price |-> trade_price, outcome |-> outcome]
  /\ res' = [value |-> get_effective_odds(trade_price, outcome)]
  /\ CallOnly

NextOdds == \E p \in Prices, o \in Outcomes : CallEffectiveOdds(p, o)

SpecOdds == Init /\ [][NextOdds]_vars

\* sizes of the positions scored on their own, in tokens
ScoreSizes == {30000, 100000}

\* what calculate_score and should_skip_alert answer for a trade: the score,
\* the cash cost in dollars and the kind of the veto
Treated(trade) ==
  LET market   == Markets[trade.cond]
      analysis == calculate_score(trade, market)
  IN  [ score  |-> analysis.score,
        amount |-> analysis.amount,
        odds   |-> analysis.odds,
        skip   |-> should_skip_alert(market, trade.price,
                                     detect_pre_event_trade(trade, market),
                                     trade.outcome) ]

\* a NO position at YES-token price p and a YES position at price 1 - p,
\* same size, wallet and market
CallBothSides(p, size, first_activity) ==
  /\ arg' = [fn |-> "both_sides", trade_price |-> p, size |-> size,
             first_activity |-> first_activity]
  /\ res' = [ no  |-> Treated([Suspect EXCEPT !.price = p, !.outcome = "No",
                                              !.size = size,
                                              !.first_activity = first_activity]),
              yes |-> Treated([Suspect EXCEPT !.price = 100 - p, !.outcome = "Yes",
                                              !.size = size,
                                              !.first_activity = first_activity]) ]
  /\ CallOnly

\* the record of a wallet after n pre-event trades of $1000 made an hour
\* before the event
RECURSIVE RowAfterTrades(_)
RowAfterTrades(n) ==
  IF n = 0 THEN NoRow
  ELSE WalletTxnBody(RowAfterTrades(n - 1),
                     [is_pre_event |-> TRUE, size |-> 1000,
                      latency_seconds |-> Some(3600)]).row

\* cached wallet statistics: no record, or the record after 1 to 3 trades
HistoryRows == {RowAfterTrades(n) : n \in 0..3}

\* trades scored together with the wallet history: the wallet has 4
\* activities, or is old and busy
HistoryTrades ==
  { [t EXCEPT !.total_count = c, !.first_activity = f] :
      t \in {Suspect, PrimaryTrade, [Suspect EXCEPT !.price = 50],
              [Suspect EXCEPT !.cond = "c2"]},
      c \in {4, 50}, f \in {Some(2), Some(5), Some(30)} }

\* lines 187-207 of the loop: calculate_score, then the latency score and
\* the history score are added
CallAggregatedScore(trade, wallet_stats) ==
  /\ arg' = [fn |-> "aggregated_score", trade |-> trade, wallet_stats |-> wallet_stats]
  /\ res' = [ base  |-> calculate_score(trade, Markets[trade.cond]).score,
              total |-> AggregatedScore(trade, [w \in Wallets |-> wallet_stats]) ]
  /\ CallOnly

NextScore ==
  \/ \E p \in Prices \ {0, 100}, size \in ScoreSizes, first \in {Some(2), Some(30)} :
       CallBothSides(p, size, first)
  \/ \E trade \in HistoryTrades, wallet_stats \in HistoryRows :
       CallAggregatedScore(trade, wallet_stats)

SpecScore == Init /\ [][NextScore]_vars

\* collector.py: the smart filter of the trade source.  The market carries
\* volume24hr in dollars and groupItemTitle; the amount is size * price on
\* the price as the API gives it.
is_trade_suspicious(trade, market) ==
  LET amount == (trade.size * trade.price) \div 100
  IN  IF trade.malformed THEN TRUE
      ELSE IF amount < 10000 THEN FALSE
      ELSE IF 40 <= trade.price /\ trade.price <= 60 THEN FALSE
      ELSE IF market.volume24hr > 10000000 /\ amount < 50000 THEN FALSE
      ELSE IF market.volume24hr < 100000 /\ amount < 5000 THEN FALSE
      ELSE IF market.groupItemTitle \notin {"politics", "economics", "sports"}
              /\ amount < 25000
           THEN FALSE
      ELSE TRUE

\* get_recent_trades_paginated keeps a trade after the cutoff whose market
\* is unknown or whose market the smart filter lets through
KeptBySource(trade, known, market) ==
  ~known \/ is_trade_suspicious(trade, market)

\* the two sides of one market at the trade source
CallSourceFilter(p, size, market) ==
  /\ arg' = [fn |-> "is_trade_suspicious", trade_price |-> p, size |-> size,
             market |-> market]
  /\ res' = [ no  |-> KeptBySource([Suspect EXCEPT !.price = p, !.outcome = "No",
                                                   !.size = size], TRUE, market),
              yes |-> KeptBySource([Suspect EXCEPT !.price = 100 - p, !.outcome = "Yes",
                                                   !.size = size], TRUE, market) ]
  /\ CallOnly

NextSource ==
  \E p \in Prices, size \in ScoreSizes,
     market \in { [volume24hr |-> v, groupItemTitle |-> g] :
                    v \in {50000, 1000000, 20000000}, g \in {"politics", "crypto"} } :
    CallSourceFilter(p, size, market)

SpecSource == Init /\ [][NextSource]_vars

\* markets handed to should_skip_alert: a market without "question" has none
\* of the title features
FilterMarkets ==
  { [ question |-> "Q", endHours |-> e, titleDays |-> d, hft |-> h,
      crypto_price |-> c, absurd |-> a, weak_team |-> w, realtime |-> FALSE ] :
      e \in {NULL, Some(18), Some(60), Some(240)}, d \in {NULL, Some(5)},
      h \in BOOLEAN, c \in BOOLEAN, a \in BOOLEAN, w \in BOOLEAN }
  \cup { Market("", e, NULL) : e \in {NULL, Some(18), Some(60), Some(240)} }

CallShouldSkipAlert(market, odds, latency, outcome) ==
  /\ arg' = [fn |-> "should_skip_alert", market |-> market, odds |-> odds,
             latency |-> latency, outcome |-> outcome]
  /\ res' = [reason |-> should_skip_alert(market, odds, latency, outcome),
             raised |-> SkipRaises(market, odds, latency, outcome)]
  /\ CallOnly

\* raw prices: effective odds 0.02, 0.50, 0.92 and 0.98 on the YES side;
\* latency_seconds of the trade: none, or more than 7 days
NextFilter ==
  \E market \in FilterMarkets, odds \in {2, 50, 92, 98}, latency \in {NULL, Some(700000)},
     outcome \in {"Yes", "No"} :
    CallShouldSkipAlert(market, odds, latency, outcome)

SpecFilter == Init /\ [][NextFilter]_vars

\* trades at the ends of the price range, on both sides, next to one that
\* qualifies
GuardTrades ==
  { Suspect }
  \cup { [Suspect EXCEPT !.hash = "h2", !.price = p, !.outcome = o] :
           p \in {0, 100}, o \in {"Yes", "No"} }

\* one cycle over the trades at the ends of the price range, and
\* should_skip_alert called on its own at those odds
NextGuard ==
  \/ StartCycle(MaxAlertBatch, 1)
  \/ \E t \in GuardTrades : ProcessTrade(t)
  \/ EndCycle
  \/ \E question \in {"", "X wins"}, odds \in {0, 3, 90, 97, 100}, outcome \in {"Yes", "No"} :
       CallShouldSkipAlert(Market(question, NULL, NULL), odds, NULL, outcome)

SpecGuard == Init /\ [][NextGuard]_vars

CallCombinedSignal(insider_score, insider_position, irrationality_score, is_mispriced, edge) ==
  /\ arg' = [fn |-> "get_combined_signal", insider_score |-> insider_score,
             insider_position |-> insider_position,
             irrationality_score |-> irrationality_score,
             is_mispriced |-> is_mispriced, edge |-> edge]
  /\ res' = get_combined_signal(insider_score, insider_position, irrationality_score,
                                is_mispriced, edge)
  /\ CallOnly

NextSignal ==
  \E insider_score \in {80, 155}, insider_position \in Outcomes,
     irrationality_score \in {0, 35}, is_mispriced \in BOOLEAN, edge \in {-5, 0, 12} :
    CallCombinedSignal(insider_score, insider_position, irrationality_score,
                       is_mispriced, edge)

SpecSignal == Init /\ [][NextSignal]_vars

CallMispricing(yes_price, factors, rounding) ==
  /\ arg' = [fn |-> "calculate_mispricing", yes_price |-> yes_price,
             factors |-> factors]
  /\ res' = calculate_mispricing(yes_price, factors, rounding)
  /\ CallOnly

NextMispricing ==
  \E yes_price \in {0, 7, 11, 60, 100},
     factors \in [base_rate_class : {"historically_near_zero", "common", "unlisted"},
                  independent_conditions_required : {1, 2, 3},
                  category : {"conspiracy", "politics_near", "macro", "unlisted"},
                  confidence_in_analysis : {"low", "medium", "high"}],
     rounding \in Rounding :
    CallMispricing(yes_price, factors, rounding)

SpecMispricing == Init /\ [][NextMispricing]_vars

CallAnalysis(market_question, yes_price, activity, insider_position, reply, rounding) ==
  /\ arg' = [fn |-> "analyze_market_irrationality", market_question |-> market_question,
             yes_price |-> yes_price, activity |-> activity, insider_score |-> 85,
             insider_position |-> insider_position, reply |-> reply]
  /\ res' = analyze_market_irrationality(market_question, yes_price, activity, 85,
                                         insider_position, reply, rounding)
  /\ CallOnly

NextAnalysis ==
  \E market_question \in {"", "X wins", "Will the Fed cut rates before the recession",
                          "Will Bitcoin collapse"},
     yes_price \in {4, 11, 20, 60},
     activity \in {NoActivity,
                   [volume_24h |-> 700, volume_avg_30d |-> 200, price_change_24h |-> 12]},
     insider_position \in {"Yes", "No"},
     reply \in {NULL, NearZeroReply,
                Some([base_rate_class |-> "rare", independent_conditions_required |-> 3,
                      category |-> "conspiracy", confidence_in_analysis |-> "high"]),
                Some([base_rate_class |-> "occasional", independent_conditions_required |-> 1,
                      category |-> "macro", confidence_in_analysis |-> "medium"])},
     rounding \in Rounding :
    CallAnalysis(market_question, yes_price, activity, insider_position, reply, rounding)

SpecAnalysis == Init /\ [][NextAnalysis]_vars

\* ------------------------------------------------------------------------
\* main.py: one run of main, the detector and then the send loop
\* ------------------------------------------------------------------------
\* The alerts of a run are all handed to the send loop (_split_by_goals puts
\* every alert into insiders).  tracked_hashes and existing_alerts are read
\* from their files at the start of a run and written back at its end; an
\* entry of existing_alerts is kept as its (wallet, trade_hash).

\* lines 212-235, from the i-th alert on; accepts[i] is what
\* send_telegram_alert returns for the i-th alert if it is called
RECURSIVE SendLoop(_, _, _, _)
SendLoop(insiders, accepts, i, kept) ==
  IF i > Len(insiders) THEN kept
  ELSE LET alert == insiders[i]
           skipped == \/ alert.wallet = ""
                      \/ alert.trade_hash # "" /\ alert.trade_hash \in kept.tracked_hashes
           after == IF skipped \/ ~accepts[i] THEN kept
                    ELSE [tracked_hashes  |-> kept.tracked_hashes \cup
                                              (IF alert.trade_hash # "" THEN {alert.trade_hash} ELSE {}),
                          existing_alerts |-> kept.existing_alerts \cup
                                              {<<alert.wallet, alert.trade_hash>>}]
       IN SendLoop(insiders, accepts, i + 1, after)

\* main, lines 200-203: the detector runs at the start of main
RunDetector ==
  /\ alerts = <<>>
  /\ StartCycle(MaxBatch, MaxCycles)

\* main, lines 208-242: the send loop over the alerts the detector returned
SendAlerts ==
  /\ pc = "idle"
  /\ alerts # <<>>
  /\ \E accepts \in [1..Len(alerts) -> BOOLEAN] :
       LET kept == SendLoop(alerts, accepts, 1,
                            [tracked_hashes |-> tracked_hashes, existing_alerts |-> existing_alerts])
       IN /\ tracked_hashes' = kept.tracked_hashes
          /\ existing_alerts' = kept.existing_alerts
  /\ alerts' = <<>>
  /\ UNCHANGED <<dbvars, now, cycle, pc, batch_len, idx, wallet_stats_cache,
                 error_count, filtered_invalid_data, processed_count, aborted,
                 emitted, calls, consec, stat_calls, callvars, concvars>>

\* suspect trades of two wallets, one trade_hash reported for both
MainTrades ==
  { Suspect, [Suspect EXCEPT !.hash = "h2"],
    [Suspect EXCEPT !.wallet = "w2", !.hash = "h2", !.cond = "c2"] }

NextMain ==
  \/ RunDetector
  \/ \E t \in MainTrades : ProcessTrade(t)
  \/ EndCycle
  \/ SendAlerts

SpecMain == Init /\ [][NextMain]_vars

\* ------------------------------------------------------------------------
\* Properties of the batch loop (Spec, SpecLoop)
\* ------------------------------------------------------------------------
\* C1: over any sequence of polling cycles detect_insider_trades emits at
\* most one alert per (wallet, trade_hash) pair, and once an alert for a pair
\* was emitted is_alert_sent(wallet, trade_hash) is true.
C1_AtMostOneAlertPerPair ==
  \A p \in Pairs :
    /\ emitted[p] <= 1
    /\ (emitted[p] >= 1 => is_alert_sent(alert_history, p[1], p[2]))

\* the trades of C8: validated, at least MIN_BET_SIZE, with a wallet address
\* and a condition id
C8_Attributable(t) ==
  /\ ~t.malformed
  /\ 0 <= t.price
  /\ t.price <= 100
  /\ Amount(t.size, t.price, t.outcome) >= MIN_BET_SIZE
  /\ t.wallet # ""
  /\ t.cond # ""

\* C8: every attributable trade that reaches the score aggregation causes
\* exactly one update_wallet_stats call, whether it ends below the threshold,
\* vetoed, suppressed as a coordinated attack or emitted as an alert.
C8_EveryScoredTradeUpdatesStats ==
  [][\A t \in Trades :
       (ProcessTrade(t) /\ C8_Attributable(t) /\ t.ago # NULL /\ calls'.scored = 1)
         => calls'.updated = 1]_vars

\* C9: the loop is left early only after more than 10 consecutive failed
\* iterations.
C9_AbortOnlyAfterConsecutiveFailures ==
  aborted => consec > MaxErrors

\* the trades of C10: price outside [0,1] or cash amount <= 0
C10_BadData(t) ==
  /\ ~t.malformed
  /\ \/ t.price < 0
     \/ t.price > 100
     \/ (IF IsNo(t.outcome) THEN t.size * (100 - t.price) ELSE t.size * t.price) <= 0

\* C10: a trade with a price outside [0,1] or a cash amount <= 0 is never
\* scored, saved, used for wallet stats or alerted; it adds exactly one to
\* the invalid-data counter, counts as no error and the loop goes on.
C10_InvalidTradeRejected ==
  [][\A t \in Trades :
       (ProcessTrade(t) /\ C10_BadData(t)) =>
         /\ calls' = NoIteration
         /\ UNCHANGED <<dbvars, alerts, emitted, error_count, processed_count>>
         /\ filtered_invalid_data' = filtered_invalid_data + 1
         /\ idx' = idx + 1
         /\ pc' = "loop"
         /\ ~aborted']_vars

\* an invalid trade was counted and a later trade of the same batch went
\* through save_trade and update_wallet_stats
C10_Witness ==
  /\ filtered_invalid_data >= 1
  /\ calls.updated = 1
  /\ processed_count >= 1

\* the trade gets as far as calculate_score
C11_Scored(t) == PreStage(t, alert_history) = "pass" /\ t.total_count # 0

\* what should_skip_alert answers for the trade
C11_SkipReason(t) ==
  should_skip_alert(Markets[t.cond], t.price,
                    detect_pre_event_trade(t, Markets[t.cond]), t.outcome)

C2_OneAlertUnderConcurrency ==
  \A p \in Pairs : emitted[p] <= 1

\* the calls on one wallet, in the order they ended
CallsOn(w) == SelectSeq(txn_log, LAMBDA c : c.wallet = w)

\* the row a wallet has after a sequence of calls made one after the other
RECURSIVE RowAfter(_)
RowAfter(cs) ==
  IF cs = <<>> THEN NoRow
  ELSE LET before == RowAfter(SubSeq(cs, 1, Len(cs) - 1))
           body   == WalletTxnBody(before, cs[Len(cs)].td)
       IN  IF body.result = "ok" THEN body.row ELSE before

\* C7: under every interleaving the record of each wallet is the result of
\* applying the calls made for that wallet one after the other, in the order
\* in which they ended; calls for other wallets leave it alone.
C7_UpdatesSerialized ==
  \A w \in Wallets : wallet_performance[w] = RowAfter(CallsOn(w))

\* both workers updated the same wallet and both updates are in its record
C7_Witness ==
  \E w \in Wallets :
    /\ wallet_performance[w] # NoRow
    /\ wallet_performance[w].total_trades = 2
    /\ Len(CallsOn(w)) = 2
    /\ CallsOn(w)[1].worker # CallsOn(w)[2].worker

\* ------------------------------------------------------------------------
\* Properties of the wallet statistics (SpecWallet)
\* ------------------------------------------------------------------------
Rows == {w \in Wallets : wallet_performance[w] # NoRow}

\* C3: after n update_wallet_stats calls on a wallet that had no record, the
\* record holds total_trades = n, pre_event_trades = the number of calls with
\* is_pre_event, total_volume = the sum of the sizes.
C3_StatsCountEveryCall ==
  \A w \in Wallets :
    stat_calls[w].n > 0 =>
      /\ wallet_performance[w] # NoRow
      /\ wallet_performance[w].total_trades = stat_calls[w].n
      /\ wallet_performance[w].pre_event_trades = stat_calls[w].pre
      /\ wallet_performance[w].total_volume = stat_calls[w].volume

\* C4: every wallet record satisfies 0 <= pre_event_trades <= total_trades,
\* total_trades >= 1, total_volume >= 0 and 0 <= insider_score <= 100.
C4_WalletRowInvariant ==
  \A w \in Rows :
    LET row == wallet_performance[w]
    IN  /\ 0 <= row.pre_event_trades
        /\ row.pre_event_trades <= row.total_trades
        /\ row.total_trades >= 1
        /\ row.total_volume >= 0
        /\ 0 <= row.insider_score
        /\ row.insider_score <= 10000

\* a record updated several times, all of them pre-event with a latency over
\* 30 minutes, so that both halves of the score sit at their cap
C4_Witness ==
  \E w \in Rows :
    /\ wallet_performance[w].total_trades >= 3
    /\ wallet_performance[w].pre_event_trades = wallet_performance[w].total_trades
    /\ wallet_performance[w].insider_score = 10000

\* the score formula of the specification evaluated on a stored record
\* (latency term 0 when avg_latency_seconds is NULL or <= 0), to 2 decimals
ScoreOfRecord(row) ==
  calculate_insider_score(row.pre_event_trades, row.total_trades,
                          IF row.avg_latency_seconds = NULL THEN <<0, 1>>
                          ELSE row.avg_latency_seconds)

\* C5: after every update_wallet_stats call, the first one included, the
\* stored insider_score is the score formula evaluated on the aggregate
\* fields of the same record.
C5_ScoreIsFunctionOfRecord ==
  \A w \in Rows :
    wallet_performance[w].insider_score = ScoreOfRecord(wallet_performance[w])

\* C6: avg_latency_seconds is the arithmetic mean of latency_seconds over
\* exactly the calls that carried a latency > 0 (stated on the records whose
\* stored average is defined).
C6_AvgLatencyIsMean ==
  \A w \in Rows :
    LET avg == wallet_performance[w].avg_latency_seconds
    IN  (avg # NULL /\ stat_calls[w].lat_cnt > 0) =>
          avg[1] * stat_calls[w].lat_cnt = stat_calls[w].lat_sum * avg[2]

\* ------------------------------------------------------------------------
\* Properties of the functions called on their own
\* ------------------------------------------------------------------------
Called(fn) == arg # NoCall /\ arg.fn = fn

\* C12: for every price in [0, 1], get_effective_odds gives the price for a
\* "yes" outcome and 1 minus that value for a "no" outcome, however the
\* outcome is capitalised.
C12_EffectiveOdds ==
  Called("get_effective_odds") =>
    /\ arg.outcome \in {"Yes", "YES", "yes"} => res.value = Dec(arg.trade_price)
    /\ arg.outcome \in {"No", "NO", "no"} =>
         res.value = OneMinus(get_effective_odds(arg.trade_price, "yes") \div 4)

\* a NO position spelled in capitals at price 0.07
C12_Witness ==
  /\ Called("get_effective_odds")
  /\ arg.outcome = "NO"
  /\ arg.trade_price = 7
  /\ res.value = Dec(93) - 1

\* C13: a NO position at YES-token price p and a YES position at price
\* 1 - p of the same size, wallet and market get the same score, the same
\* cash cost and the same veto.
C13_BothSidesTreatedAlike ==
  Called("both_sides") =>
    /\ res.no.score = res.yes.score
    /\ res.no.amount = res.yes.amount
    /\ res.no.skip = res.yes.skip

\* C14: a NO position at price p and a YES position at price 1 - p of the
\* same size on the same market are both kept or both dropped by the trade
\* source.
C14_SourceFilterSymmetric ==
  Called("is_trade_suspicious") => res.no = res.yes

\* the rule a reason belongs to, 0 for no veto
RuleOf(reason) ==
  CASE reason = "LONG_LEAD_TIME" -> 1
    [] reason = "HFT_15MIN_MARKET" -> 2
    [] reason \in {"SHORT_CRYPTO_PRICE", "SHORT_TERM_MARKET"} -> 3
    [] reason = "ABSURD_MARKET" -> 4
    [] reason = "LOW_ROI" -> 5
    [] reason = "MARKET_MAKER" -> 6
    [] reason = "IMPOSSIBLE_ODDS" -> 7
    [] OTHER -> 0

\* the effective odds of the call
CallOdds == get_effective_odds(arg.odds, arg.outcome)

\* the condition of each rule of the cascade on the arguments of the call
RuleHolds(n) ==
  CASE n = 1 -> arg.latency # NULL /\ Val(arg.latency) > 10080 * 60
    [] n = 2 -> arg.market.hft
    [] n = 3 -> /\ SkipEventDay(arg.market) # NULL
                /\ \/ Val(SkipEventDay(arg.market)) <= 1
                   \/ arg.market.crypto_price /\ Val(SkipEventDay(arg.market)) <= 3
    [] n = 4 -> arg.market.absurd
    [] n = 5 -> CallOdds >= Dec(90) /\ 10 * (Dec(100) - CallOdds) < CallOdds
    [] n = 6 -> CallOdds >= Dec(97) \/ CallOdds <= Dec(3)
    [] n = 7 -> CallOdds > Dec(95) /\ arg.market.weak_team

\* C15: should_skip_alert returns the reason of the earliest rule whose
\* condition holds, and allows the alert only when the condition of no rule
\* holds.
C15_FirstMatchingRuleWins ==
  Called("should_skip_alert") =>
    /\ \A n \in 1..7 : RuleHolds(n) => RuleOf(res.reason) \in 1..n
    /\ RuleOf(res.reason) # 0 => RuleHolds(RuleOf(res.reason))

\* C16: on an input that matches none of the rules 1 to 4, effective odds of
\* 0.97 and more are vetoed as MARKET_MAKER, and effective odds from 0.90 to
\* below 0.97 with a potential return under 10% as LOW_ROI.
C16_TwoOddsPaths ==
  (Called("should_skip_alert") /\ arg.market.question # ""
     /\ \A n \in 1..4 : ~RuleHolds(n)) =>
    /\ CallOdds >= Dec(97) => res.reason = "MARKET_MAKER"
    /\ (CallOdds >= Dec(90) /\ CallOdds < Dec(97)
          /\ 10 * (Dec(100) - CallOdds) < CallOdds) => res.reason = "LOW_ROI"

\* C17: a market whose endDate is at most one day away, or at most three
\* days away for a crypto-price title, is vetoed whatever its title says.
C17_ShortHorizonVetoed ==
  (Called("should_skip_alert") /\ arg.market.endHours # NULL
     /\ \/ Val(arg.market.endHours) <= 24
        \/ arg.market.crypto_price /\ Val(arg.market.endHours) <= 72) =>
    res.reason # ""

\* C19: the base score of calculate_score is at most 110, and the score
\* after the latency score and the wallet-history score are added is at most
\* 150.
C19_ScoreCeilings ==
  Called("aggregated_score") => res.base <= 110 /\ res.total <= 150

\* the side of a position as the classifier reads it: any capitalisation of
\* yes and no; a missing position counts as YES
SideOf(insider_position) ==
  IF insider_position \in {"No", "NO", "no"} THEN "NO"
  ELSE IF insider_position \in {"Yes", "YES", "yes", ""} THEN "YES"
  ELSE "OTHER"

\* C20: get_combined_signal returns one of the five signal types: ALPHA with
\* strength insider_score + irrationality_score for NO and mispriced,
\* CONFLICT with insider_score for YES and mispriced, INSIDER_CONFIRMED with
\* insider_score + 20 for YES and edge < 0, CONTRARIAN_INSIDER with
\* insider_score for NO and edge < 0, INSIDER_ONLY with insider_score for
\* every other input.
C20_CombinedSignal ==
  Called("get_combined_signal") =>
    LET side == SideOf(arg.insider_position)
        expected ==
          IF side = "NO" /\ arg.is_mispriced
          THEN <<"ALPHA", arg.insider_score + arg.irrationality_score>>
          ELSE IF side = "YES" /\ arg.is_mispriced
          THEN <<"CONFLICT", arg.insider_score>>
          ELSE IF side = "YES" /\ arg.edge < 0
          THEN <<"INSIDER_CONFIRMED", arg.insider_score + 20>>
          ELSE IF side = "NO" /\ arg.edge < 0
          THEN <<"CONTRARIAN_INSIDER", arg.insider_score>>
          ELSE <<"INSIDER_ONLY", arg.insider_score>>
    IN  /\ res.signal_type \in {"ALPHA", "CONFLICT", "INSIDER_CONFIRMED",
                                 "CONTRARIAN_INSIDER", "INSIDER_ONLY"}
        /\ <<res.signal_type, res.signal_strength>> = expected

\* a NO position on a mispriced market: ALPHA, both scores added
C20_Witness ==
  /\ Called("get_combined_signal")
  /\ arg.insider_position = "No"
  /\ arg.is_mispriced
  /\ arg.irrationality_score = 35
  /\ res.signal_type = "ALPHA"
  /\ res.signal_strength = arg.insider_score + 35


\* C21: for every yes_price in [0, 1] and every factor record,
\* calculate_mispricing returns 0 <= rational_estimate <= 0.50 and the edge
\* yes_price - rational_estimate (as the float subtraction gives it);
\* edge_quality is STRONG iff edge > 2 * min_edge, MODERATE iff
\* min_edge < edge <= 2 * min_edge, WEAK iff 0 < edge <= min_edge and NONE
\* iff edge <= 0; is_mispriced iff the quality is STRONG or MODERATE, so
\* is_mispriced implies edge > 0.
C21_Mispricing ==
  Called("calculate_mispricing") =>
    LET min_edge == res.min_edge_required
        exact == Fine(arg.yes_price) - res.rational_estimate
    IN  /\ 0 <= res.rational_estimate /\ res.rational_estimate <= Fine(50)
        /\ res.edge - exact \in Rounding
        /\ min_edge = CategoryInfo(arg.factors.category).min_edge
        /\ (res.edge_quality = "STRONG") <=> (res.edge > 2 * min_edge)
        /\ (res.edge_quality = "MODERATE")
             <=> (min_edge < res.edge /\ res.edge <= 2 * min_edge)
        /\ (res.edge_quality = "WEAK") <=> (0 < res.edge /\ res.edge <= min_edge)
        /\ (res.edge_quality = "NONE") <=> (res.edge <= 0)
        /\ res.is_mispriced <=> (res.edge_quality \in {"STRONG", "MODERATE"})
        /\ res.is_mispriced => res.edge > 0

\* a price of 1.00 with a low-confidence estimate: the blend exceeds one
\* half and the estimate returned is the cap, the edge 0.50 is STRONG
C21_Witness ==
  /\ Called("calculate_mispricing")
  /\ arg.yes_price = 100
  /\ arg.factors.confidence_in_analysis = "low"
  /\ arg.factors.base_rate_class = "common"
  /\ res.rational_estimate = Fine(50)
  /\ res.edge_quality = "STRONG"
  /\ res.is_mispriced


\* C22: in analyze_market_irrationality the category that selects the
\* probability multiplier and the minimum-edge threshold of the mispricing
\* step is the category of the first irrationality pass, the one reported
\* in the irrationality result, whether the factors come from the factor
\* service or from the heuristic fallback.
C22_MispricingUsesFirstPassCategory ==
  Called("analyze_market_irrationality") =>
    /\ res.irrationality.category = classify_category(arg.market_question)
    /\ CategoryMult(res.factors.category) = CategoryMult(res.irrationality.category)
    /\ res.mispricing.min_edge_required = CategoryInfo(res.irrationality.category).min_edge


\* the trade qualifies for an alert: it is scored, reaches ALERT_THRESHOLD
\* and is let pass by should_skip_alert
C23_Qualifies(t) ==
  /\ C11_Scored(t)
  /\ AggregatedScore(t, wallet_stats_cache) >= ALERT_THRESHOLD
  /\ C11_SkipReason(t) = ""

\* the alerts recorded for exactly this market in the preceding 6 hours
C23_AlertsFor(question) ==
  {r \in alert_history : /\ r.market = question
                         /\ r.alert_timestamp >= now - CoordinatedHours
                         /\ r.sent = 1}

\* C23: a qualifying, non-vetoed trade on market M is suppressed if and only
\* if at least 3 alerts for that same market M were recorded in the
\* preceding 6 hours; alerts recorded for other markets do not count
\* toward M.
C23_CoordinatedSuppression ==
  [][\A t \in Trades :
       (ProcessTrade(t) /\ C23_Qualifies(t)) =>
         ((alerts' = alerts)
            <=> Cardinality(C23_AlertsFor(Markets[t.cond].question)) >= CoordinatedAlerts)]_vars


\* C24: missing data degrades to a zero contribution and never drops or
\* fails the trade: a trade whose wallet has no activity history (no
\* first_activity_timestamp, total_count 0) is scored with a wallet age of
\* 999 days and 0 wallet-age points, a market without an end date gives 0
\* timing points, and in both cases the iteration goes on to the threshold
\* check and to persistence (which only the coordinated-attack suppression
\* skips).
C24_MissingDataDegrades ==
  [][\A t \in Trades :
       (ProcessTrade(t) /\ PreStage(t, alert_history) = "pass"
          /\ (t.total_count = 0 \/ Markets[t.cond].endHours = NULL)) =>
         /\ t.first_activity = NULL =>
              /\ calculate_wallet_age_days(t.first_activity) = 999
              /\ calculate_wallet_age_score(t.first_activity) = 0
         /\ Markets[t.cond].endHours = NULL =>
              calculate_timing_score(Markets[t.cond].endHours) = 0
         /\ error_count' = error_count
         /\ calls'.scored = 1
         /\ calls'.saved = 1 \/ PostStage(t, alert_history, wallet_stats_cache, now) = "coordinated"]_vars


\* C25: every emitted alert satisfies the combined-signal gates of the
\* configuration: its signal_strength is at least
\* COMBINED_SIGNAL_MIN_STRENGTH, a CONFLICT alert has an insider score of at
\* least CONFLICT_MIN_INSIDER_SCORE, and an INSIDER_ONLY alert has a
\* non-empty latency record.
C25_AlertsPassSignalGates ==
  \A i \in 1..Len(alerts) :
    LET alert == alerts[i]
    IN  /\ alert.combined_signal.signal_strength >= COMBINED_SIGNAL_MIN_STRENGTH
        /\ alert.combined_signal.signal_type = "CONFLICT"
             => alert.score >= CONFLICT_MIN_INSIDER_SCORE
        /\ (INSIDER_ONLY_REQUIRES_PRE_EVENT
              /\ alert.combined_signal.signal_type = "INSIDER_ONLY")
             => alert.latency # NULL


\* C26: the odds vetoes of should_skip_alert depend on the effective odds
\* only: for every market question, an empty or missing one included, and
\* for both sides, effective odds >= 0.97 or <= 0.03 give skip = True, and
\* effective odds >= 0.90 with (1 - e) / e < 0.10 give skip = True.
C26_OddsVetoesWhateverTheQuestion ==
  Called("should_skip_alert") =>
    /\ (CallOdds >= Dec(97) \/ CallOdds <= Dec(3)) => res.reason # ""
    /\ (CallOdds >= Dec(90) /\ 10 * (Dec(100) - CallOdds) < CallOdds) => res.reason # ""


C29_RowsOf(wallet) == {r \in trade_history : r.wallet = wallet}

\* C29: each distinct trade (by hash) is counted at most once in the wallet
\* statistics across cycles: when a trade already stored is fetched again,
\* save_trade rejects it and the statistics do not change, so total_trades
\* of a wallet always equals the number of its trade_history rows.
C29_StatsCountStoredTrades ==
  /\ [][\A t \in Trades :
          (ProcessTrade(t) /\ HashTaken(trade_history, t.hash)) =>
            /\ trade_history' = trade_history
            /\ wallet_performance' = wallet_performance]_vars
  /\ [](\A w \in Wallets :
          IF wallet_performance[w] = NoRow THEN C29_RowsOf(w) = {}
          ELSE wallet_performance[w].total_trades = Cardinality(C29_RowsOf(w)))

\* C30: between two runs of main, an alert_history row with sent = 1 exists
\* for a trade only if the notification sink accepted the alert for that
\* trade; an alert whose send failed leaves is_alert_sent false for its
\* (wallet, trade_hash).
C30_SentOnlyIfAccepted ==
  (pc = "idle" /\ alerts = <<>>) =>
    \A r \in alert_history :
      r.sent = 1 => <<r.wallet, r.trade_hash>> \in existing_alerts

====
